---- MODULE Spec2Model ----
(***************************************************************************)
(* Model of the TTS-mini popup: the tokenizer of the syntax highlighter    *)
(* (src/src/popup/syntaxHighlighter.tsx) and the speech controls of the    *)
(* Popup component (src/unnamed/part_001, Popup.tsx).                      *)
(*                                                                         *)
(* A JavaScript string is a sequence of one-character strings.             *)
(***************************************************************************)
EXTENDS Integers, Sequences, FiniteSets, TLC

\* ------------------------------------------------------------------ bounds

\* Longest text typed character by character in the tokenizer specification.
MaxLen == 4

\* ------------------------------------------------------- character classes

\* \s of a JavaScript regular expression (and what String.trim strips); the
\* model's texts hold the space and the tab.
WhiteSpaceChars == {" ", "\t"}

\* \d
DigitChars == {"0", "1", "2", "3", "4", "5", "6", "7", "8", "9"}

LetterChars ==
  {"a", "b", "c", "d", "e", "f", "g", "h", "i", "j", "k", "l", "m", "n", "o",
   "p", "q", "r", "s", "t", "u", "v", "w", "x", "y", "z",
   "A", "B", "C", "D", "E", "F", "G", "H", "I", "J", "K", "L", "M", "N", "O",
   "P", "Q", "R", "S", "T", "U", "V", "W", "X", "Y", "Z"}

\* \w is [A-Za-z0-9_]
WordChars == LetterChars \cup DigitChars \cup {"_"}

IsSpace(c) == c \in WhiteSpaceChars

\* --------------------------------------------------------- string helpers

Min(a, b) == IF a < b THEN a ELSE b
Max(a, b) == IF a > b THEN a ELSE b

\* String.prototype.slice(0, end): a negative end counts from the end of the
\* string, and the result is clamped to the string.
Slice0(s, end) ==
  LET e == IF end < 0 THEN Max(Len(s) + end, 0) ELSE Min(end, Len(s))
  IN  SubSeq(s, 1, e)

RECURSIVE TrimStart(_)
TrimStart(s) ==
  IF s # <<>> /\ IsSpace(Head(s)) THEN TrimStart(Tail(s)) ELSE s

RECURSIVE TrimEnd(_)
TrimEnd(s) ==
  IF s # <<>> /\ IsSpace(s[Len(s)]) THEN TrimEnd(SubSeq(s, 1, Len(s) - 1)) ELSE s

\* String.prototype.trim
Trim(s) == TrimEnd(TrimStart(s))

\* s.split(/\s+/).length: one more than the number of maximal whitespace runs
\* of s (a leading or trailing run yields an empty piece, "" yields [""]).
RECURSIVE SplitCount(_)
SplitCount(s) ==
  IF s = <<>> THEN 1
  ELSE IF IsSpace(Head(s)) /\ (Len(s) = 1 \/ ~IsSpace(s[2]))
       THEN 1 + SplitCount(Tail(s))
       ELSE SplitCount(Tail(s))

RECURSIVE Concat(_)
Concat(ss) == IF ss = <<>> THEN <<>> ELSE Head(ss) \o Concat(Tail(ss))

\* -------------------------------------------------------------- tokenizer

\* The end (exclusive) of the longest run of characters from position p that
\* are all whitespace (sp) or all non-whitespace (~sp): the greedy + of the
\* regular expression.
RECURSIVE RunEnd(_, _, _)
RunEnd(s, p, sp) ==
  IF p <= Len(s) /\ IsSpace(s[p]) = sp THEN RunEnd(s, p + 1, sp) ELSE p

\* Exec with the pattern /(\w+|\s+)/g, which does not match punctuation.
RECURSIVE ExecWordsOnly(_, _)
ExecWordsOnly(s, lastIndex) ==
  IF lastIndex > Len(s) THEN [found |-> FALSE, from |-> 0, to |-> 0]
  ELSE IF IsSpace(s[lastIndex])
       THEN [found |-> TRUE, from |-> lastIndex, to |-> RunEnd(s, lastIndex, TRUE)]
       ELSE IF s[lastIndex] \in WordChars
            THEN LET RECURSIVE W(_)
                     W(p) == IF p <= Len(s) /\ s[p] \in WordChars THEN W(p + 1) ELSE p
                 IN  [found |-> TRUE, from |-> lastIndex, to |-> W(lastIndex)]
            ELSE ExecWordsOnly(s, lastIndex + 1)

\* regex.exec(text) of /(\S+|\s+)/g from lastIndex: the first match at or after
\* lastIndex, as the positions [from, to) of match[1]; found is FALSE for null.
\* Every character is \S or \s, so the search never skips a character.
Exec(s, lastIndex) ==
  IF lastIndex > Len(s) THEN [found |-> FALSE, from |-> 0, to |-> 0]
  ELSE [found |-> TRUE, from |-> lastIndex,
        to |-> RunEnd(s, lastIndex, IsSpace(s[lastIndex]))]

\* /^\d+(\.\d+)?$/.test(token)
RECURSIVE AllDigits(_)
AllDigits(t) == t = <<>> \/ (Head(t) \in DigitChars /\ AllDigits(Tail(t)))

IsNumber(t) ==
  \/ (t # <<>> /\ AllDigits(t))
  \/ \E d \in 2 .. (Len(t) - 1) :
       /\ t[d] = "."
       /\ AllDigits(SubSeq(t, 1, d - 1))
       /\ AllDigits(SubSeq(t, d + 1, Len(t)))

\* /^[^\w\s]+$/.test(token)
IsPunctuation(t) ==
  /\ t # <<>>
  /\ \A i \in 1 .. Len(t) : t[i] \notin WordChars /\ ~IsSpace(t[i])

\* TokenType with the number pattern cut down to /^\d+$/.
TokenTypeIntegersOnly(t) ==
  IF Trim(t) # <<>>
  THEN IF t # <<>> /\ AllDigits(t) THEN "number"
       ELSE IF IsPunctuation(t) THEN "punctuation" ELSE "word"
  ELSE "whitespace"

\* The type of a token: the if (token.trim()) branch and its classification.
TokenType(t) ==
  IF Trim(t) # <<>>
  THEN IF IsNumber(t) THEN "number"
       ELSE IF IsPunctuation(t) THEN "punctuation" ELSE "word"
  ELSE "whitespace"

\* TokenIndex with a number token taking a word index too.
TokenIndexCountsNumbers(type, wordIndex) ==
  IF type \in {"word", "number"} THEN wordIndex ELSE -1

\* index: type === "word" ? wordIndex++ : -1 (the value stored in the token)
TokenIndex(type, wordIndex) == IF type = "word" THEN wordIndex ELSE -1

\* the wordIndex++ of the same expression (the counter after the token)
NextWordIndex(type, wordIndex) == IF type = "word" THEN wordIndex + 1 ELSE wordIndex

\* TokenEnd without the running offset: the token's length alone.
TokenEndFromZero(charIndex, token) == Len(token)

\* const end = charIndex + token.length;
TokenEnd(charIndex, token) == charIndex + Len(token)

\* The while loop over regex.exec: lastIndex is the regular expression's
\* position, wordIndex and charIndex the loop's counters, acc the tokens so far.
RECURSIVE TokenLoop(_, _, _, _, _)
TokenLoop(s, lastIndex, wordIndex, charIndex, acc) ==
  LET match == Exec(s, lastIndex) IN
  IF ~match.found THEN acc
  ELSE LET token == SubSeq(s, match.from, match.to - 1)
           start == charIndex
           end   == TokenEnd(charIndex, token)
           type  == TokenType(token)
       IN  TokenLoop(s, match.to, NextWordIndex(type, wordIndex), end,
                     Append(acc, [word  |-> token,
                                  index |-> TokenIndex(type, wordIndex),
                                  type  |-> type,
                                  start |-> start,
                                  end   |-> end]))

\* The useMemo tokenizer of SyntaxHighlighter.
Tokenize(s) == IF s = <<>> THEN <<>> ELSE TokenLoop(s, 1, 0, 0, <<>>)

\* How many non-overlapping word tokens a text has (the wordCount of the
\* highlighter: the number of tokens of type word).
WordCount(toks) == Cardinality({i \in 1 .. Len(toks) : toks[i].type = "word"})

\* ------------------------------------------------------------------ state

VARIABLES
  text,              \* useState("") of Popup: the text of the text area
  isSpeaking,        \* useState(false)
  currentWordIndex,  \* useState(-1)
  utteranceRef,      \* useRef(null): 0, or the number of the latest utterance
  utterances,        \* every SpeechSynthesisUtterance created so far, in order:
                     \* its text (the text its handlers closed over) and its
                     \* state in the engine: "live", "cancelled", "done"
  synthSpeaking,     \* speechSynthesis.speaking
  synthPaused,       \* speechSynthesis.paused
  timers,            \* pending setTimeout(speak, 0) callbacks, oldest first,
                     \* each the text its speak closure captured
  lastEvent,         \* the handler that ran last and its arguments
  prefs,             \* useState(defaultPrefs): rate (in tenths) and theme
  saveTimers,        \* pending setTimeout(() => savePrefs(prefs), 250)
                     \* callbacks, oldest first, each the prefs it captured
  stored,            \* chrome.storage.sync under STORAGE_KEY: <<>> while
                     \* nothing was saved, else <<the prefs saved last>>
  debounced,         \* 250 ms have gone by since prefs changed last
  fetches            \* the fetchSelection() calls in flight, oldest first,
                     \* each the await it is suspended at: "tab" or "message"

speechVars == <<isSpeaking, currentWordIndex, utteranceRef, utterances,
                synthSpeaking, synthPaused, timers>>

prefsVars == <<prefs, saveTimers, stored, debounced>>

vars == <<text, speechVars, lastEvent, prefsVars, fetches>>

Event(kind, utt, charIndex, name) ==
  [kind |-> kind, utt |-> utt, charIndex |-> charIndex, name |-> name]

\* The tokens SyntaxHighlighter renders: useMemo(..., [text]), a function of the
\* text of the latest render.
tokens == Tokenize(text)

\* rate: 1 of defaultPrefs and the bounds of the Speed slider, in tenths.
DefaultRate == 10
MinRate == 5
MaxRate == 20

defaultPrefs == [rate |-> DefaultRate, theme |-> "system"]

Init ==
  /\ prefs = defaultPrefs
  /\ saveTimers = <<>>
  /\ stored = <<>>
  /\ debounced = FALSE
  /\ fetches = <<>>
  /\ text = <<>>
  /\ isSpeaking = FALSE
  /\ currentWordIndex = -1
  /\ utteranceRef = 0
  /\ utterances = <<>>
  /\ synthSpeaking = FALSE
  /\ synthPaused = FALSE
  /\ timers = <<>>
  /\ lastEvent = Event("init", 0, 0, "")

\* ------------------------------------------------------------ environment

\* Most utterances created in one run of the popup.
MaxUtterances == 2

\* Most setTimeout(speak, 0) callbacks pending at once.
MaxTimers == 1

\* How far below zero and beyond the end of the text a reported charIndex goes.
MaxOvershoot == 1

TheQuickBrownFox ==
  <<"t", "h", "e", " ", "q", "u", "i", "c", "k", " ",
    "b", "r", "o", "w", "n", " ", "f", "o", "x">>

HelloWorldPi ==
  <<"H", "e", "l", "l", "o", ",", " ", "w", "o", "r", "l", "d", "!", " ",
    "3", ".", "1", "4", " ", "i", "s", " ", "p", "i", ".">>

\* The characters typed in the tokenizer specification: a letter, a digit, the
\* decimal point, a punctuation mark, the underscore, and two kinds of whitespace.
TypedChars == {"a", "1", ".", "!", "_", " ", "\t"}

\* The texts an edit of text t gives the tokenizer: t with one more typed
\* character (up to MaxLen characters), the cleared text, and the two example
\* sentences pasted in.
TokenizerTexts(t) ==
  {Append(t, c) : c \in IF Len(t) < MaxLen THEN TypedChars ELSE {}}
    \cup {<<>>, TheQuickBrownFox, HelloWorldPi}

\* The texts the user puts in the text area while the speech controls run: none,
\* and two words.
PopupTexts == {<<>>, <<"a", " ", "b">>}

\* The texts spoken in the specification of the boundary handler: words
\* separated by single spaces, leading and trailing whitespace, a number, and
\* the example sentence.
BoundaryTexts ==
  {<<>>, <<"a", " ", "b">>, <<"\t", " ", "a", " ">>, <<"1">>, TheQuickBrownFox}

\* The labels (ev.name) of a boundary notification.
BoundaryNames == {"word", "sentence"}

\* The charIndex values the engine reports for an utterance of text t: every
\* offset of t, and offsets below zero (unknown) and beyond the end.
CharIndexes(t) == (0 - MaxOvershoot) .. (Len(t) + MaxOvershoot)

\* --------------------------------------------------------- the text area

\* setText(s): typing in the text area (handleTextChange, or the plain textarea's
\* onChange) and the Clear button.
SetText(s) ==
  /\ s # text
  /\ text' = s
  /\ lastEvent' = Event("setText", 0, 0, "")
  /\ UNCHANGED <<isSpeaking, currentWordIndex, utteranceRef, utterances,
                 synthSpeaking, synthPaused, timers>>
  /\ UNCHANGED <<prefsVars, fetches>>

\* ------------------------------------------------------- speech controls

\* speechSynthesis.cancel(): every utterance of the queue is dropped; the
\* engine may still notify the handlers of a dropped utterance later.
Cancelled(us) ==
  [i \in 1 .. Len(us) |->
     IF us[i].state = "live" THEN [us[i] EXCEPT !.state = "cancelled"] ELSE us[i]]

\* speechSynthesis.speaking right after cancel(): cleared at once, or still set
\* until the engine has finished cancelling.
SpeakingAfterCancel == IF synthSpeaking THEN {FALSE, TRUE} ELSE {FALSE}

\* No utterance is in the engine's queue.
NoLiveUtterance ==
  \A u \in 1 .. Len(utterances) : utterances[u].state # "live"

\* The tracker is Idle: nothing is spoken, no word is active.
Idle == ~isSpeaking /\ currentWordIndex = -1 /\ NoLiveUtterance

\* stop() that moves the highlight to the first word instead of clearing it.
stopAtFirstWord(after) ==
  /\ utterances' = Cancelled(utterances)
  /\ synthSpeaking' = after
  /\ isSpeaking' = FALSE
  /\ currentWordIndex' = 0

\* stop(), with `after` the value of speechSynthesis.speaking it leaves.
stop(after) ==
  /\ utterances' = Cancelled(utterances)
  /\ synthSpeaking' = after
  /\ isSpeaking' = FALSE
  /\ currentWordIndex' = -1

\* The Stop button (disabled unless isSpeaking).
StopClick ==
  /\ isSpeaking
  /\ \E after \in SpeakingAfterCancel : stop(after)
  /\ lastEvent' = Event("stop", 0, 0, "")
  /\ UNCHANGED <<text, utteranceRef, synthPaused, timers>>
  /\ UNCHANGED <<prefsVars, fetches>>

\* What lastEvent records of a speak() that took the branch
\* `if (speechSynthesis.speaking) { stop(); setTimeout(speak, 0); return; }`:
\* whether the tracker was Idle when stop() was called.
Restart == IF Idle THEN "restartFromIdle" ELSE "restart"

\* speak() that retries without calling stop() first.
speakWithoutStop(t, rest, kind) ==
  /\ IF Trim(t) = <<>>
     THEN /\ lastEvent' = Event(kind, 0, 0, "blank")
          /\ timers' = rest
          /\ UNCHANGED <<isSpeaking, currentWordIndex, utteranceRef, utterances,
                         synthSpeaking>>
     ELSE IF synthSpeaking
     THEN /\ lastEvent' = Event(kind, 0, 0, Restart)
          /\ timers' = Append(rest, t)
          /\ UNCHANGED <<isSpeaking, currentWordIndex, utteranceRef, utterances,
                         synthSpeaking>>
     ELSE /\ lastEvent' = Event(kind, 0, 0, "start")
          /\ Len(utterances) < MaxUtterances
          /\ utterances' = Append(utterances, [text |-> t, state |-> "live"])
          /\ utteranceRef' = Len(utterances) + 1
          /\ isSpeaking' = TRUE
          /\ synthSpeaking' = TRUE
          /\ timers' = rest
          /\ UNCHANGED currentWordIndex
  /\ UNCHANGED <<text, synthPaused>>
  /\ UNCHANGED <<prefsVars, fetches>>

\* speak() of the render whose text is t; rest is the timer queue without the
\* callback that is running, if one is.
speak(t, rest, kind) ==
  /\ IF Trim(t) = <<>>
     THEN /\ lastEvent' = Event(kind, 0, 0, "blank")
          /\ timers' = rest
          /\ UNCHANGED <<isSpeaking, currentWordIndex, utteranceRef, utterances,
                         synthSpeaking>>
     ELSE IF synthSpeaking
     THEN /\ lastEvent' = Event(kind, 0, 0, Restart)
          /\ \E after \in SpeakingAfterCancel : stop(after)
          /\ timers' = Append(rest, t)
          /\ UNCHANGED utteranceRef
     ELSE /\ lastEvent' = Event(kind, 0, 0, "start")
          /\ Len(utterances) < MaxUtterances
          /\ utterances' = Append(utterances, [text |-> t, state |-> "live"])
          /\ utteranceRef' = Len(utterances) + 1
          /\ isSpeaking' = TRUE
          /\ synthSpeaking' = TRUE
          /\ timers' = rest
          /\ UNCHANGED currentWordIndex
  /\ UNCHANGED <<text, synthPaused>>
  /\ UNCHANGED <<prefsVars, fetches>>

\* The Play button (disabled while the text is blank).
PlayClick ==
  /\ Trim(text) # <<>>
  /\ synthSpeaking => Len(timers) < MaxTimers
  /\ speak(text, timers, "play")

\* A setTimeout(speak, 0) callback runs: the speak of the render that set it.
TimerFires ==
  /\ timers # <<>>
  /\ speak(Head(timers), Tail(timers), "timer")

\* pauseOrResume() whose resume branch leaves isSpeaking as pause() set it.
pauseOrResumeKeepsFlag ==
  /\ synthSpeaking
  /\ IF synthPaused
     THEN /\ synthPaused' = FALSE
          /\ isSpeaking' = isSpeaking
          /\ lastEvent' = Event("pauseOrResume", 0, 0, "resume")
     ELSE /\ synthPaused' = TRUE
          /\ isSpeaking' = FALSE
          /\ lastEvent' = Event("pauseOrResume", 0, 0, "pause")
  /\ UNCHANGED <<text, currentWordIndex, utteranceRef, utterances,
                 synthSpeaking, timers>>
  /\ UNCHANGED <<prefsVars, fetches>>

\* pauseOrResume(), the Pause/Resume button.
pauseOrResume ==
  /\ synthSpeaking
  /\ IF synthPaused
     THEN /\ synthPaused' = FALSE
          /\ isSpeaking' = TRUE
          /\ lastEvent' = Event("pauseOrResume", 0, 0, "resume")
     ELSE /\ synthPaused' = TRUE
          /\ isSpeaking' = FALSE
          /\ lastEvent' = Event("pauseOrResume", 0, 0, "pause")
  /\ UNCHANGED <<text, currentWordIndex, utteranceRef, utterances,
                 synthSpeaking, timers>>
  /\ UNCHANGED <<prefsVars, fetches>>

\* ------------------------------------------- the utterance's handlers

\* const upto = text.slice(0, ev.charIndex);
\* const idx = upto.trim() ? upto.trim().split(/\s+/).length - 1 : -1;
HeuristicIndex(t, charIndex) ==
  LET upto == Slice0(t, charIndex) IN
  IF Trim(upto) # <<>> THEN SplitCount(Trim(upto)) - 1 ELSE -1

\* Clamp without Math.max: a negative index is kept.
ClampUpperOnly(idx, wordsLength) ==
  IF idx < 0 THEN -1 ELSE Min(idx, wordsLength - 1)

\* Math.min(Math.max(idx, 0), words.length - 1)
Clamp(idx, wordsLength) == Min(Max(idx, 0), wordsLength - 1)

\* if (ev.name === "word" || ev.charIndex >= 0)
Informative(name, charIndex) == name = "word" \/ charIndex >= 0

\* What u.onboundary leaves in currentWordIndex, for the utterance of text t
\* (words is t.split(/\s+/), taken when the utterance was created).
OnBoundaryIndex(t, charIndex, name, current) ==
  IF Informative(name, charIndex)
  THEN Clamp(HeuristicIndex(t, charIndex), SplitCount(t))
  ELSE current

\* The engine may notify utterance u: it is being spoken, or it was cancelled
\* and its trailing notifications are still on their way.
Speaking(u) == utterances[u].state = "live" /\ ~synthPaused
Trailing(u) == utterances[u].state = "cancelled"

\* A boundary notification of utterance u reaches u.onboundary.
Boundary(u, charIndex, name) ==
  /\ Speaking(u) \/ Trailing(u)
  /\ currentWordIndex' =
       OnBoundaryIndex(utterances[u].text, charIndex, name, currentWordIndex)
  /\ lastEvent' = Event("boundary", u, charIndex, name)
  /\ UNCHANGED <<text, isSpeaking, utteranceRef, utterances,
                 synthSpeaking, synthPaused, timers>>
  /\ UNCHANGED <<prefsVars, fetches>>

\* An utterance the engine has let go of: its handlers run no more, and the
\* text they closed over is garbage.
Released == [text |-> <<>>, state |-> "done"]

\* The engine is done with utterance u (it was spoken to the end, it failed, or
\* its cancellation is reported): u.onend or u.onerror runs. Both handlers do
\* the same; kind is "end" or "error".
Finished(u, kind) ==
  /\ \/ Speaking(u)
     \/ Trailing(u)
     \/ utterances[u].state = "live" /\ kind = "error"
  /\ utterances' = [utterances EXCEPT ![u] = Released]
  /\ synthSpeaking' =
       IF utterances[u].state = "live" THEN FALSE ELSE synthSpeaking
  /\ isSpeaking' = FALSE
  /\ currentWordIndex' = -1
  /\ lastEvent' = Event(kind, u, 0, "")
  /\ UNCHANGED <<text, utteranceRef, synthPaused, timers>>
  /\ UNCHANGED <<prefsVars, fetches>>

End(u) == Finished(u, "end")

Error(u) == Finished(u, "error")

\* The engine finishes a cancellation: speechSynthesis.speaking is cleared.
CancelCompletes ==
  /\ synthSpeaking
  /\ \A u \in 1 .. Len(utterances) : utterances[u].state # "live"
  /\ synthSpeaking' = FALSE
  /\ lastEvent' = Event("cancelled", 0, 0, "")
  /\ UNCHANGED <<text, isSpeaking, currentWordIndex, utteranceRef,
                 utterances, synthPaused, timers>>
  /\ UNCHANGED <<prefsVars, fetches>>

\* ------------------------------------------------------------ preferences

\* themes[(currentIndex + 1) % themes.length] of toggleTheme
NextTheme(theme) ==
  CASE theme = "system" -> "light"
    [] theme = "light" -> "dark"
    [] theme = "dark" -> "system"

\* clearTimeout(id): the pending callback number id is dropped.
ClearTimeout(pending, id) ==
  SubSeq(pending, 1, id - 1) \o SubSeq(pending, id + 1, Len(pending))

\* The effect of [prefs], run by the render that follows a change to p:
\*   const id = setTimeout(() => savePrefs(prefs), 250);
\*   clearTimeout(id);
\* It returns no cleanup function.
PrefsEffect(p) ==
  LET id == Len(saveTimers) + 1
      scheduled == Append(saveTimers, p)
  IN  saveTimers' = ClearTimeout(scheduled, id)

\* setPrefs(p) with a changed value, and the render and effect that follow.
SetPrefs(p, kind) ==
  /\ p # prefs
  /\ prefs' = p
  /\ PrefsEffect(p)
  /\ debounced' = FALSE
  /\ lastEvent' = Event(kind, 0, 0, "")
  /\ UNCHANGED <<text, speechVars, stored, fetches>>

\* The theme button.
toggleTheme == SetPrefs([prefs EXCEPT !.theme = NextTheme(prefs.theme)], "toggleTheme")

\* The Speed slider's onChange.
SetRate(rate) == SetPrefs([prefs EXCEPT !.rate = rate], "setRate")

\* savePrefs(p): chrome.storage.sync.set({ [STORAGE_KEY]: p })
savePrefs(p) == <<p>>

\* 250 ms go by without a change to prefs: every callback still pending runs
\* savePrefs with the prefs it captured, the latest last.
DebounceElapses ==
  /\ ~debounced
  /\ debounced' = TRUE
  /\ stored' = IF saveTimers = <<>>
               THEN stored
               ELSE savePrefs(saveTimers[Len(saveTimers)])
  /\ saveTimers' = <<>>
  /\ lastEvent' = Event("debounce", 0, 0, "")
  /\ UNCHANGED <<text, speechVars, prefs, fetches>>

\* --------------------------------------------------------- fetchSelection

\* The texts fetchSelection shows. The pictograph that opens each of them is
\* written as one ASCII character: "X" for the cross mark, "~" for the
\* hourglass, "!" for the warning sign.
NoActiveTabStatus ==
  <<"X", " ", "N", "o", " ", "a", "c", "t", "i", "v", "e", " ", "t", "a",
    "b", " ", "f", "o", "u", "n", "d">>

GettingSelectionStatus ==
  <<"~", " ", "G", "e", "t", "t", "i", "n", "g", " ", "s", "e", "l", "e",
    "c", "t", "i", "o", "n", ".", ".", ".">>

NoTextSelectedStatus ==
  <<"!", " ", "N", "o", " ", "t", "e", "x", "t", " ", "s", "e", "l", "e",
    "c", "t", "e", "d", " ", "o", "n", " ", "p", "a", "g", "e">>

FailedStatus ==
  <<"X", " ", "F", "a", "i", "l", "e", "d", " ", "t", "o", " ", "g", "e",
    "t", " ", "s", "e", "l", "e", "c", "t", "i", "o", "n", ".", " ", "T",
    "r", "y", " ", "r", "e", "l", "o", "a", "d", "i", "n", "g", " ", "t",
    "h", "e", " ", "p", "a", "g", "e", ".">>

\* How many fetchSelection() calls are in flight at once.
MaxFetches == 3

\* What getActiveTabId() resolves to: <<>> for undefined (no tab, or a tab
\* without id), else <<the tab's id>>.
TabIds == {<<>>, <<1>>}

\* What chrome.tabs.sendMessage resolves to: <<>> for undefined (nothing
\* answered), else <<the string the content script sent>>.
BlankResponses == {<<>>, << <<>> >>, << <<" ">> >>}
SelectionResponses == {<< <<"a", " ", "b">> >>, << <<"a">> >>}

\* const selectedText = res || "";
OrEmpty(res) == IF res = <<>> THEN <<>> ELSE res[1]

\* The text shown for response res, testing selectedText without trim().
SelectionTextUntrimmed(res) ==
  LET selectedText == OrEmpty(res) IN
  IF selectedText # <<>> THEN selectedText ELSE NoTextSelectedStatus

\* if (selectedText.trim()) setText(selectedText);
\* else setText("... No text selected on page");
SelectionText(res) ==
  LET selectedText == OrEmpty(res) IN
  IF Trim(selectedText) # <<>> THEN selectedText ELSE NoTextSelectedStatus

\* The Grab Selection button: fetchSelection() runs up to
\* `await getActiveTabId()`.
GrabClick ==
  /\ Len(fetches) < MaxFetches
  /\ fetches' = Append(fetches, "tab")
  /\ lastEvent' = Event("fetchSelection", 0, 0, "")
  /\ UNCHANGED <<text, speechVars, prefsVars>>

\* The call number i returns, with or without a caught exception.
Returned(i) == ClearTimeout(fetches, i)

\* getActiveTabId() resolves to tabId in call i.
TabResolves(i, tabId) ==
  /\ fetches[i] = "tab"
  /\ IF tabId = <<>>
     THEN /\ text' = NoActiveTabStatus
          /\ fetches' = Returned(i)
          /\ lastEvent' = Event("fetchReturned", 0, 0, "noTab")
     ELSE /\ text' = GettingSelectionStatus
          /\ fetches' = [fetches EXCEPT ![i] = "message"]
          /\ lastEvent' = Event("fetchAwaits", 0, 0, "")
  /\ UNCHANGED <<speechVars, prefsVars>>

\* chrome.tabs.sendMessage resolves to res in call i.
MessageResolves(i, res) ==
  /\ fetches[i] = "message"
  /\ text' = SelectionText(res)
  /\ fetches' = Returned(i)
  /\ lastEvent' = Event("fetchReturned", 0, 0,
                        IF res \in BlankResponses THEN "blank" ELSE "selection")
  /\ UNCHANGED <<speechVars, prefsVars>>

\* The awaited promise of call i rejects (chrome.tabs.query fails, or no
\* content script receives the message): the catch block runs.
Rejects(i) ==
  /\ i \in 1 .. Len(fetches)
  /\ text' = FailedStatus
  /\ fetches' = Returned(i)
  /\ lastEvent' = Event("fetchReturned", 0, 0, "threw")
  /\ UNCHANGED <<speechVars, prefsVars>>

\* ---------------------------------------------------------- specifications

Next ==
  \/ \E s \in PopupTexts : SetText(s)
  \/ PlayClick
  \/ TimerFires
  \/ StopClick
  \/ pauseOrResume
  \/ \E u \in 1 .. Len(utterances) :
       \E charIndex \in CharIndexes(utterances[u].text), name \in BoundaryNames :
         Boundary(u, charIndex, name)
  \/ \E u \in 1 .. Len(utterances) : End(u)
  \/ \E u \in 1 .. Len(utterances) : Error(u)
  \/ CancelCompletes

\* The popup with its speech controls and the engine's notifications.
Spec == Init /\ [][Next]_vars

\* The same popup where what is due does happen: a setTimeout(speak, 0)
\* callback that is pending runs, and the engine finishes a cancellation.
SpecLive == Spec /\ WF_vars(TimerFires) /\ WF_vars(CancelCompletes)

\* One session at a time, over more texts: the user sets the text and presses
\* Play while the engine is silent, and the engine notifies the utterance's
\* handlers with the offsets its interface promises (charIndex >= 0).
NextBoundary ==
  \/ \E s \in BoundaryTexts : SetText(s)
  \/ ~synthSpeaking /\ PlayClick
  \/ \E u \in 1 .. Len(utterances) :
       \E charIndex \in CharIndexes(utterances[u].text) \cap Nat,
          name \in BoundaryNames :
         Boundary(u, charIndex, name)
  \/ \E u \in 1 .. Len(utterances) : End(u)

SpecBoundary == Init /\ [][NextBoundary]_vars

\* The text area alone: the user replaces the text, the highlighter tokenizes it.
NextTokenizer == \E s \in TokenizerTexts(text) : SetText(s)

SpecTokenizer == Init /\ [][NextTokenizer]_vars

\* The preferences: the user changes them, and time goes by.
NextPrefs ==
  \/ toggleTheme
  \/ \E rate \in MinRate .. MaxRate : SetRate(rate)
  \/ DebounceElapses

SpecPrefs == Init /\ [][NextPrefs]_vars

\* Grab Selection: the user presses the button, edits or clears the text, and
\* the browser answers.
NextSelection ==
  \/ \E s \in PopupTexts : SetText(s)
  \/ GrabClick
  \/ \E i \in 1 .. Len(fetches), tabId \in TabIds : TabResolves(i, tabId)
  \/ \E i \in 1 .. Len(fetches) :
       \E res \in BlankResponses \cup SelectionResponses : MessageResolves(i, res)
  \/ \E i \in 1 .. Len(fetches) : Rejects(i)

SpecSelection == Init /\ [][NextSelection]_vars

\* ------------------------------------------------- tokenizer properties

TokenTexts(toks) == [i \in 1 .. Len(toks) |-> toks[i].word]

TokenTypes(toks) == [i \in 1 .. Len(toks) |-> toks[i].type]

TokenIndexes(toks) == [i \in 1 .. Len(toks) |-> toks[i].index]

\* C3. Lossless partition: the texts of the tokens, concatenated in order, are
\* the text, for every text (the empty text, whitespace alone, leading and
\* trailing whitespace included).
LosslessPartition == Concat(TokenTexts(tokens)) = text

\* C3's case: a text with leading and trailing whitespace has been tokenized.
LosslessPartitionWitness ==
  /\ lastEvent.kind = "setText"
  /\ Len(tokens) >= 3
  /\ tokens[1].type = "whitespace"
  /\ tokens[Len(tokens)].type = "whitespace"

\* C4. Word-index density: the k-th token of type word, counting from zero and
\* from the left, has index k, and every other token has index -1.
WordIndexDensity ==
  \A i \in 1 .. Len(tokens) :
    IF tokens[i].type = "word"
    THEN tokens[i].index =
           Cardinality({j \in 1 .. (i - 1) : tokens[j].type = "word"})
    ELSE tokens[i].index = -1

\* C4's case: a number or punctuation token stands before the second word.
WordIndexDensityWitness ==
  /\ lastEvent.kind = "setText"
  /\ \E i, j \in 1 .. Len(tokens) :
       /\ i < j
       /\ tokens[i].type \in {"number", "punctuation"}
       /\ tokens[j].type = "word"
       /\ tokens[j].index >= 1

\* The classification as the specification words it: alphanumeric characters
\* are the letters and the digits.
AlphanumericChars == LetterChars \cup DigitChars

DecimalLiteral(t) ==
  \E d \in 1 .. Len(t) :
    /\ \A i \in 1 .. d : t[i] \in DigitChars
    /\ \/ d = Len(t)
       \/ /\ d + 1 < Len(t)
          /\ t[d + 1] = "."
          /\ \A i \in (d + 2) .. Len(t) : t[i] \in DigitChars

SpecifiedKind(t) ==
  IF DecimalLiteral(t) THEN "number"
  ELSE IF \A i \in 1 .. Len(t) : t[i] \notin AlphanumericChars THEN "punctuation"
  ELSE "word"

\* C5. Classification: every token that is not whitespace has the kind the
\* rules give it: number for a decimal literal, else punctuation for a run
\* without any alphanumeric character, else word; so every word token holds
\* an alphanumeric character.
ClassificationAsSpecified ==
  \A i \in 1 .. Len(tokens) :
    tokens[i].type # "whitespace" =>
      /\ tokens[i].type = SpecifiedKind(tokens[i].word)
      /\ tokens[i].type = "word" =>
           \E k \in 1 .. Len(tokens[i].word) :
             tokens[i].word[k] \in AlphanumericChars

\* C6, as claimed: "Hello, world! 3.14 is pi." begins with the tokens "Hello",
\* ",", " ", "world", "!", " ", "3.14", " ", "is", " ", "pi", ".", with the
\* words indexed 0 to 3, "3.14" a number and the marks punctuation.
HelloPunctuationSplitOff ==
  text = HelloWorldPi =>
    /\ Len(tokens) >= 12
    /\ SubSeq(TokenTexts(tokens), 1, 12) =
         << <<"H", "e", "l", "l", "o">>, <<",">>, <<" ">>,
            <<"w", "o", "r", "l", "d">>, <<"!">>, <<" ">>,
            <<"3", ".", "1", "4">>, <<" ">>, <<"i", "s">>, <<" ">>,
            <<"p", "i">>, <<".">> >>
    /\ SubSeq(TokenTypes(tokens), 1, 12) =
         <<"word", "punctuation", "whitespace", "word", "punctuation",
           "whitespace", "number", "whitespace", "word", "whitespace",
           "word", "punctuation">>
    /\ SubSeq(TokenIndexes(tokens), 1, 12) =
         <<0, -1, -1, 1, -1, -1, -1, -1, 2, -1, 3, -1>>

\* C6, amended: "Hello, world! 3.14 is pi." is the nine tokens "Hello,", " ",
\* "world!", " ", "3.14", " ", "is", " ", "pi."; the words "Hello,", "world!",
\* "is", "pi." have the indexes 0 to 3, "3.14" is a number, and there is no
\* punctuation token: a mark attached to a word stays in the word's token.
HelloTokens ==
  text = HelloWorldPi =>
    /\ TokenTexts(tokens) =
         << <<"H", "e", "l", "l", "o", ",">>, <<" ">>,
            <<"w", "o", "r", "l", "d", "!">>, <<" ">>,
            <<"3", ".", "1", "4">>, <<" ">>, <<"i", "s">>, <<" ">>,
            <<"p", "i", ".">> >>
    /\ TokenTypes(tokens) =
         <<"word", "whitespace", "word", "whitespace", "number",
           "whitespace", "word", "whitespace", "word">>
    /\ TokenIndexes(tokens) = <<0, -1, 1, -1, -1, -1, 2, -1, 3>>

\* C6's case: the example sentence has been tokenized.
HelloTokensWitness ==
  /\ lastEvent.kind = "setText"
  /\ text = HelloWorldPi
  /\ Len(tokens) = 9

\* C11. Token offsets: every token's end - start is the length of its text and
\* text.slice(start, end) is its text; the first token starts at 0, every later
\* token starts where the one before it ends, and the last token ends at the
\* length of the text.
TokenOffsetsPartition ==
  /\ \A i \in 1 .. Len(tokens) :
       /\ tokens[i].end - tokens[i].start = Len(tokens[i].word)
       /\ SubSeq(text, tokens[i].start + 1, tokens[i].end) = tokens[i].word
       /\ tokens[i].start = IF i = 1 THEN 0 ELSE tokens[i - 1].end
  /\ tokens # <<>> => tokens[Len(tokens)].end = Len(text)

\* C11's case: a text of three tokens or more, of different lengths, has been
\* tokenized.
TokenOffsetsWitness ==
  /\ lastEvent.kind = "setText"
  /\ Len(tokens) >= 3
  /\ \E i, j \in 1 .. Len(tokens) : Len(tokens[i].word) # Len(tokens[j].word)

\* --------------------------------------------------- tracker properties

\* The handler that ran last is the onboundary of the live utterance that
\* utteranceRef holds (the current session).
CurrentBoundary ==
  /\ lastEvent.kind = "boundary"
  /\ lastEvent.utt = utteranceRef
  /\ utterances[utteranceRef].state = "live"

\* The text the last notified utterance speaks.
NotifiedText == utterances[lastEvent.utt].text

\* C1. Staleness after stop: once stop() has cancelled a session and the
\* tracker is Idle, a boundary notification of the cancelled utterance with a
\* charIndex >= 0 leaves currentWordIndex = -1 and isSpeaking false.
StaleBoundaryAfterStopIgnored ==
  [][(/\ lastEvent'.kind = "boundary"
      /\ lastEvent'.charIndex >= 0
      /\ utterances[lastEvent'.utt].state = "cancelled"
      /\ Idle)
       => (currentWordIndex' = -1 /\ isSpeaking' = FALSE)]_vars

\* C2. Staleness after a newer start: while the utterance of a newer speak() is
\* live, a boundary (with a charIndex >= 0), end or error notification of a
\* cancelled utterance changes neither currentWordIndex nor isSpeaking.
SupersededNotificationsDiscarded ==
  [][(/\ lastEvent'.kind \in {"boundary", "end", "error"}
      /\ lastEvent'.charIndex >= 0
      /\ utterances[lastEvent'.utt].state = "cancelled"
      /\ utteranceRef # lastEvent'.utt
      /\ utterances[utteranceRef].state = "live")
       => (currentWordIndex' = currentWordIndex /\ isSpeaking' = isSpeaking)]_vars

\* t is words separated by single spaces.
SingleSpaced(t) ==
  /\ t # <<>>
  /\ \A i \in 1 .. Len(t) : IsSpace(t[i]) => t[i] = " "
  /\ ~IsSpace(t[1]) /\ ~IsSpace(t[Len(t)])
  /\ \A i \in 1 .. (Len(t) - 1) : ~(IsSpace(t[i]) /\ IsSpace(t[i + 1]))

\* The zero-based offset c is where a word of t starts.
WordStart(t, c) ==
  /\ c \in 0 .. (Len(t) - 1)
  /\ ~IsSpace(t[c + 1])
  /\ c = 0 \/ IsSpace(t[c])

\* How many words of a single-spaced text start before offset c.
WordsBefore(t, c) == Cardinality({i \in 1 .. c : IsSpace(t[i])})

\* C7. Offset resolution at word starts: in a text of words separated by single
\* spaces, a boundary of the current session at the start of the k-th word
\* makes k the active word ("the quick brown fox": 4 gives 1, 0 gives 0).
BoundaryAtWordStartSelectsWord ==
  (/\ CurrentBoundary
   /\ SingleSpaced(NotifiedText)
   /\ WordStart(NotifiedText, lastEvent.charIndex))
    => currentWordIndex = WordsBefore(NotifiedText, lastEvent.charIndex)

\* C8. Range of the active index: currentWordIndex is -1, or the index of a
\* word token of the text of the utterance that utteranceRef holds.
ActiveIndexNamesWordToken ==
  \/ currentWordIndex = -1
  \/ /\ utteranceRef # 0
     /\ 0 <= currentWordIndex
     /\ currentWordIndex < WordCount(Tokenize(utterances[utteranceRef].text))

\* The prefix of the notified text up to the reported offset is empty once
\* trimmed.
EmptyPrefix == Trim(Slice0(NotifiedText, lastEvent.charIndex)) = <<>>

\* C9, as claimed: a boundary of the current session whose prefix is empty
\* after trimming leaves no word active (-1, not 0).
EmptyPrefixSelectsNothing ==
  (CurrentBoundary /\ EmptyPrefix) => currentWordIndex = -1

\* C9, amended: a boundary of the current session with a charIndex >= 0 whose
\* prefix is empty after trimming makes word 0 the active word: the clamp
\* raises the heuristic index -1 to 0.
EmptyPrefixSelectsFirstWord ==
  (CurrentBoundary /\ lastEvent.charIndex >= 0 /\ EmptyPrefix)
    => currentWordIndex = 0

\* C9's case: the reported offset lies inside leading whitespace.
EmptyPrefixWitness ==
  /\ CurrentBoundary
  /\ lastEvent.charIndex >= 1
  /\ lastEvent.charIndex < Len(NotifiedText)
  /\ EmptyPrefix
  /\ currentWordIndex = 0

\* C10. A boundary of the current session with a negative charIndex, whatever
\* its label, leaves no word active.
NegativeCharIndexSelectsNothing ==
  (CurrentBoundary /\ lastEvent.charIndex < 0) => currentWordIndex = -1

\* ------------------------------------------------------ session properties

\* A speak() or Stop click whose step called stop().
CallsStop ==
  \/ lastEvent'.kind = "stop"
  \/ lastEvent'.kind \in {"play", "timer"}
       /\ lastEvent'.name \in {"restart", "restartFromIdle"}

\* C12. Idempotent stop: stop() called while the tracker is Idle leaves
\* isSpeaking, currentWordIndex, the text and the utterances as they were, so a
\* second stop() adds nothing to the first.
StopWhenIdleChangesNothing ==
  [][(Idle /\ CallsStop) =>
       /\ isSpeaking' = isSpeaking
       /\ currentWordIndex' = currentWordIndex
       /\ text' = text
       /\ utterances' = utterances
       /\ Idle']_vars

\* C12's case: speak() found the engine still speaking while the tracker was
\* Idle, and called stop().
StopWhenIdleWitness ==
  /\ lastEvent.kind \in {"play", "timer"}
  /\ lastEvent.name = "restartFromIdle"
  /\ Idle

\* C13. Pause/resume preserves position: pausing and resuming leave
\* currentWordIndex, utteranceRef and the utterances untouched, and resuming
\* sets isSpeaking; so a pause followed at once by a resume returns to Speaking
\* at the same word in the same session.
PauseResumePreservesPosition ==
  [][(lastEvent'.kind = "pauseOrResume") =>
       /\ currentWordIndex' = currentWordIndex
       /\ utteranceRef' = utteranceRef
       /\ utterances' = utterances
       /\ (lastEvent'.name = "pause") => (synthPaused' /\ ~isSpeaking')
       /\ (lastEvent'.name = "resume") => (~synthPaused' /\ isSpeaking')]_vars

\* C13's case: a session with a word highlighted was paused and has just been
\* resumed.
PauseResumeWitness ==
  /\ lastEvent.kind = "pauseOrResume"
  /\ lastEvent.name = "resume"
  /\ isSpeaking
  /\ currentWordIndex >= 0
  /\ utteranceRef \in 1 .. Len(utterances)
  /\ utterances[utteranceRef].state = "live"

\* C14. Editing invalidates the session: when the text changes while an
\* utterance is live, the tracker goes to Idle.
EditingInvalidatesSession ==
  [][(lastEvent'.kind = "setText" /\ ~NoLiveUtterance) => Idle']_vars

\* C17. Start resets the position: right after speak() has created a session,
\* currentWordIndex is -1.
StartResetsPosition ==
  (lastEvent.kind \in {"play", "timer"} /\ lastEvent.name = "start")
    => currentWordIndex = -1

\* The utterances whose handlers the engine may still call.
Notifiable ==
  {u \in 1 .. Len(utterances) : utterances[u].state \in {"live", "cancelled"}}

\* C18. One live session: at most one utterance's handlers are able to change
\* isSpeaking or currentWordIndex.
AtMostOneNotifiableUtterance == Cardinality(Notifiable) <= 1

\* The session is Paused: an utterance is queued and the Pause button has
\* paused it.
Paused == ~NoLiveUtterance /\ synthPaused /\ ~isSpeaking

\* C19. Termination of a live session: the Stop control is usable in Paused
\* as well as in Speaking.
StopUsableWhilePaused == Paused => ENABLED StopClick

\* C20. Restart eventually starts: once speak() has found the engine speaking
\* and set its retry, a new utterance is eventually submitted and isSpeaking
\* is true then.
RestartEventuallyStarts ==
  \A n \in 0 .. MaxUtterances - 1 :
    (timers # <<>> /\ Len(utterances) = n)
      ~> (Len(utterances) > n /\ isSpeaking)

\* C20's case: a retry found the engine silent and started the session.
RestartStartedWitness ==
  /\ lastEvent.kind = "timer"
  /\ lastEvent.name = "start"
  /\ isSpeaking
  /\ utterances[utteranceRef].state = "live"

\* ------------------------------------------- preferences and selection

\* C15. Preferences are saved automatically: once 250 ms have gone by since
\* the last change to prefs, savePrefs has been called with the latest prefs.
\* (Stated for prefs that differ from the defaults, which only a change gives.)
PrefsSavedAfterDebounce ==
  (debounced /\ prefs # defaultPrefs) => stored = savePrefs(prefs)

\* The texts a completed fetchSelection may leave.
FetchStatuses == {NoActiveTabStatus, NoTextSelectedStatus, FailedStatus}

\* C16. Selection retrieval never faults: when a fetchSelection() call has
\* returned, the text is the non-blank selection the page sent, or the 'no
\* active tab' status when there was no tab id, or the 'no text selected'
\* status when the response was empty or blank, or the 'failed' status when
\* an awaited call threw; the three statuses differ from one another, and the
\* text is never the transient 'Getting selection...'.
FetchEndsInSelectionOrStatus ==
  /\ Cardinality(FetchStatuses) = 3
  /\ lastEvent.kind = "fetchReturned" =>
       /\ text # GettingSelectionStatus
       /\ lastEvent.name = "noTab" => text = NoActiveTabStatus
       /\ lastEvent.name = "blank" => text = NoTextSelectedStatus
       /\ lastEvent.name = "threw" => text = FailedStatus
       /\ lastEvent.name = "selection" =>
            /\ <<text>> \in SelectionResponses
            /\ Trim(text) # <<>>
            /\ text \notin FetchStatuses

\* C16's case: a call has returned after the page answered with a blank
\* selection, while another call is still in flight.
FetchReturnedWitness ==
  /\ lastEvent.kind = "fetchReturned"
  /\ lastEvent.name = "blank"
  /\ fetches # <<>>


=============================================================================
